---- MODULE Spec2Model ----
(***************************************************************************)
(* Transport selection of the hickory-dns resolver: the Preferences value  *)
(* (crates/resolver/src/name_server/preferences.rs) and its earlier form   *)
(* ProtocolPreference (protocol_preference.rs).                            *)
(*                                                                         *)
(* A connection is a record [protocol, srtt]; a connection config is a     *)
(* record [protocol |-> ProtocolConfig].  A selector returns a reference   *)
(* into the slice it was given: the model returns the 1-based index of     *)
(* the element, and 0 for None.                                            *)
(***************************************************************************)
EXTENDS Integers, Sequences, FiniteSets

\* ---------------------------------------------------------------- bounds
MaxConns == 3
MaxConfigs == 2
MaxSrtt == 2

\* ------------------------------------------------------ collaborator types
\* hickory_proto::xfer::Protocol, restricted to four of its variants.
Protocol == {"Udp", "Tcp", "Tls", "Quic"}

\* Protocol::is_encrypted
is_encrypted(protocol) == protocol \notin {"Udp", "Tcp"}

EncryptedProtocol == {p \in Protocol : is_encrypted(p)}

\* ProtocolConfig: the variant plus what the variant carries.
ProtocolConfig ==
    {[variant |-> p, server_name |-> IF is_encrypted(p) THEN "ns.example" ELSE "none"] :
        p \in Protocol}

\* ProtocolConfig::to_protocol drops what the variant carries.
to_protocol(protocol_config) == protocol_config.variant

\* ConnectionState<P>: protocol and meta.srtt.current()
ConnectionState == [protocol : Protocol, srtt : 1..MaxSrtt]

\* ConnectionConfig
ConnectionConfig == [protocol : ProtocolConfig]

\* All sequences over S of length at most n.
SeqUpTo(S, n) == UNION {[1..k -> S] : k \in 0..n}

\* NameServerTransportState for the queried address: for each encrypted
\* protocol, whether a success was recorded inside the policy's window.
TransportState == [EncryptedProtocol -> BOOLEAN]

\* NameServerTransportState::recent_success(ip, protocol, policy)
recent_success(encrypted_transport_state, protocol) ==
    protocol \in DOMAIN encrypted_transport_state /\ encrypted_transport_state[protocol]

\* NameServerTransportState::any_recent_success(ip, policy)
any_recent_success(encrypted_transport_state) ==
    \E p \in EncryptedProtocol : recent_success(encrypted_transport_state, p)

\* ------------------------------------------------------------- std helpers
\* f64::total_cmp on the positive finite samples an SRTT takes.
total_cmp(x, y) == IF x < y THEN "Less" ELSE IF x > y THEN "Greater" ELSE "Equal"

\* Iterator::min_by over the indices idxs, compare[i][j] being the closure's
\* result on elements i and j: a left fold that keeps the accumulator unless it
\* compares Greater than the next element.
min_by(idxs, compare) ==
    LET acc[k \in 0..Len(idxs)] ==
            IF k = 0 THEN 0
            ELSE IF k = 1 THEN idxs[1]
            ELSE IF compare[acc[k - 1]][idxs[k]] = "Greater" THEN idxs[k] ELSE acc[k - 1]
    IN  acc[Len(idxs)]

\* slice.iter().filter(predicate), predicate[i] being the closure's result on
\* element i: the indices that pass, in order.
filter(predicate) ==
    SelectSeq([i \in 1..Len(predicate) |-> i], LAMBDA i : predicate[i])

\* Iterator::find: the first element, or None.
find(idxs) == IF idxs = <<>> THEN 0 ELSE idxs[1]

\* ------------------------------------------------------------ Preferences
\* allows_protocol naming the wrong variant.
allows_protocol_tcp(self, protocol) == ~(self /\ protocol = "Tcp")

\* Preferences::allows_protocol
allows_protocol(self, protocol) == ~(self /\ protocol = "Udp")

\* Preferences::allows_server over the server's protocols()
allows_server(self, protocols) == \E p \in protocols : allows_protocol(self, p)

\* compare_connections without the opportunistic-encryption block.
compare_connections_no_encryption(opportunistic_encryption, a, b) ==
    IF a.protocol = b.protocol THEN total_cmp(a.srtt, b.srtt)
    ELSE IF a.protocol = "Udp" THEN "Less"
    ELSE IF b.protocol = "Udp" THEN "Greater"
    ELSE total_cmp(a.srtt, b.srtt)

\* compare_connections with the two encryption arms swapped.
compare_connections_encrypted_last(opportunistic_encryption, a, b) ==
    IF opportunistic_encryption /\ is_encrypted(a.protocol) /\ ~is_encrypted(b.protocol)
    THEN "Greater"
    ELSE IF opportunistic_encryption /\ ~is_encrypted(a.protocol) /\ is_encrypted(b.protocol)
    THEN "Less"
    ELSE IF a.protocol = b.protocol THEN total_cmp(a.srtt, b.srtt)
    ELSE IF a.protocol = "Udp" THEN "Less"
    ELSE IF b.protocol = "Udp" THEN "Greater"
    ELSE total_cmp(a.srtt, b.srtt)

\* compare_connections comparing b's SRTT to a's.
compare_connections_srtt_reversed(opportunistic_encryption, a, b) ==
    IF opportunistic_encryption /\ is_encrypted(a.protocol) /\ ~is_encrypted(b.protocol)
    THEN "Less"
    ELSE IF opportunistic_encryption /\ ~is_encrypted(a.protocol) /\ is_encrypted(b.protocol)
    THEN "Greater"
    ELSE IF a.protocol = b.protocol THEN total_cmp(b.srtt, a.srtt)
    ELSE IF a.protocol = "Udp" THEN "Less"
    ELSE IF b.protocol = "Udp" THEN "Greater"
    ELSE total_cmp(b.srtt, a.srtt)

\* compare_connections without the two Protocol::Udp arms.
compare_connections_no_udp_first(opportunistic_encryption, a, b) ==
    IF opportunistic_encryption /\ is_encrypted(a.protocol) /\ ~is_encrypted(b.protocol)
    THEN "Less"
    ELSE IF opportunistic_encryption /\ ~is_encrypted(a.protocol) /\ is_encrypted(b.protocol)
    THEN "Greater"
    ELSE total_cmp(a.srtt, b.srtt)

\* Preferences::compare_connections
compare_connections(opportunistic_encryption, a, b) ==
    IF opportunistic_encryption /\ is_encrypted(a.protocol) /\ ~is_encrypted(b.protocol)
    THEN "Less"
    ELSE IF opportunistic_encryption /\ ~is_encrypted(a.protocol) /\ is_encrypted(b.protocol)
    THEN "Greater"
    ELSE IF a.protocol = b.protocol THEN total_cmp(a.srtt, b.srtt)
    ELSE IF a.protocol = "Udp" THEN "Less"
    ELSE IF b.protocol = "Udp" THEN "Greater"
    ELSE total_cmp(a.srtt, b.srtt)

\* compare_connection_configs ranking by encryption alone, without the history.
compare_connection_configs_any_encrypted(encrypted_transport_state, opportunistic_encryption, a, b) ==
    LET a_protocol == to_protocol(a.protocol)
        b_protocol == to_protocol(b.protocol)
    IN  IF opportunistic_encryption /\ is_encrypted(a_protocol) /\ ~is_encrypted(b_protocol)
        THEN "Less"
        ELSE IF opportunistic_encryption /\ ~is_encrypted(a_protocol) /\ is_encrypted(b_protocol)
        THEN "Greater"
        ELSE IF a_protocol = b_protocol THEN "Equal"
        ELSE IF a_protocol = "Udp" THEN "Less"
        ELSE IF b_protocol = "Udp" THEN "Greater"
        ELSE "Equal"

\* compare_connection_configs without the opportunistic-encryption block.
compare_connection_configs_no_history(encrypted_transport_state, opportunistic_encryption, a, b) ==
    LET a_protocol == to_protocol(a.protocol)
        b_protocol == to_protocol(b.protocol)
    IN  IF a_protocol = b_protocol THEN "Equal"
        ELSE IF a_protocol = "Udp" THEN "Less"
        ELSE IF b_protocol = "Udp" THEN "Greater"
        ELSE "Equal"

\* Preferences::compare_connection_configs
compare_connection_configs(encrypted_transport_state, opportunistic_encryption, a, b) ==
    LET a_protocol == to_protocol(a.protocol)
        b_protocol == to_protocol(b.protocol)
        a_recent_enc_success ==
            is_encrypted(a_protocol) /\ recent_success(encrypted_transport_state, a_protocol)
        b_recent_enc_success ==
            is_encrypted(b_protocol) /\ recent_success(encrypted_transport_state, b_protocol)
    IN  IF opportunistic_encryption /\ a_recent_enc_success /\ ~b_recent_enc_success
        THEN "Less"
        ELSE IF opportunistic_encryption /\ ~a_recent_enc_success /\ b_recent_enc_success
        THEN "Greater"
        ELSE IF a_protocol = b_protocol THEN "Equal"
        ELSE IF a_protocol = "Udp" THEN "Less"
        ELSE IF b_protocol = "Udp" THEN "Greater"
        ELSE "Equal"

\* The filter().min_by() of Preferences::select_connection: the candidate the
\* ordering ranks first among the allowed ones, before the upgrade check.
best_connection(self, opportunistic_encryption, conns) ==
    min_by(filter([i \in 1..Len(conns) |-> allows_protocol(self, conns[i].protocol)]),
           [i \in 1..Len(conns) |-> [j \in 1..Len(conns) |->
               compare_connections(opportunistic_encryption, conns[i], conns[j])]])

\* The upgrade check with the negation of is_encrypted dropped.
upgrade_check_encrypted(encrypted_transport_state, opportunistic_encryption, conn) ==
    /\ opportunistic_encryption
    /\ is_encrypted(conn.protocol)
    /\ any_recent_success(encrypted_transport_state)

\* The upgrade check of Preferences::select_connection on the chosen candidate.
upgrade_check(encrypted_transport_state, opportunistic_encryption, conn) ==
    /\ opportunistic_encryption
    /\ ~is_encrypted(conn.protocol)
    /\ any_recent_success(encrypted_transport_state)

\* Preferences::select_connection
select_connection(self, encrypted_transport_state, opportunistic_encryption, conns) ==
    LET selected_ == best_connection(self, opportunistic_encryption, conns)
    IN  IF selected_ = 0 THEN 0
        ELSE IF upgrade_check(encrypted_transport_state, opportunistic_encryption,
                              conns[selected_])
        THEN 0
        ELSE selected_

\* Preferences::select_connection_config
select_connection_config(self, encrypted_transport_state, opportunistic_encryption, cfgs) ==
    min_by(filter([i \in 1..Len(cfgs) |->
                      allows_protocol(self, to_protocol(cfgs[i].protocol))]),
           [i \in 1..Len(cfgs) |-> [j \in 1..Len(cfgs) |->
               compare_connection_configs(encrypted_transport_state,
                                          opportunistic_encryption, cfgs[i], cfgs[j])]])

\* ----------------------------------------------------- ProtocolPreference
\* ProtocolPreference::allows_protocol
ProtocolPreference_allows_protocol(self, protocol) == ~(self /\ protocol = "Udp")

\* ProtocolPreference::compare_connections comparing b's SRTT to a's.
ProtocolPreference_compare_connections_srtt_reversed(a, b) ==
    IF a.protocol = b.protocol THEN total_cmp(b.srtt, a.srtt)
    ELSE IF a.protocol = "Udp" THEN "Less"
    ELSE IF b.protocol = "Udp" THEN "Greater"
    ELSE total_cmp(b.srtt, a.srtt)

\* ProtocolPreference::compare_connections
ProtocolPreference_compare_connections(a, b) ==
    IF a.protocol = b.protocol THEN total_cmp(a.srtt, b.srtt)
    ELSE IF a.protocol = "Udp" THEN "Less"
    ELSE IF b.protocol = "Udp" THEN "Greater"
    ELSE total_cmp(a.srtt, b.srtt)

\* ProtocolPreference::select_connection
ProtocolPreference_select_connection(self, conns) ==
    min_by(filter([i \in 1..Len(conns) |->
                      ProtocolPreference_allows_protocol(self, conns[i].protocol)]),
           [i \in 1..Len(conns) |-> [j \in 1..Len(conns) |->
               ProtocolPreference_compare_connections(conns[i], conns[j])]])

\* ProtocolPreference::select_connection_config
ProtocolPreference_select_connection_config(self, cfgs) ==
    find(filter([i \in 1..Len(cfgs) |->
                    ProtocolPreference_allows_protocol(self, to_protocol(cfgs[i].protocol))]))

\* ------------------------------------------------------------------ state
VARIABLES
    exclude_udp,                \* Preferences.exclude_udp
    pp_exclude_udp,             \* ProtocolPreference.exclude_udp
    opportunistic_encryption,   \* OpportunisticEncryption::is_enabled()
    encrypted_transport_state,  \* NameServerTransportState, for the address
    op,                         \* the operation that ran last
    connections,                \* the slice given to the last select_connection
    connection_configs,         \* the slice given to the last select_connection_config
    selected,                   \* what the last Preferences selector returned
    pp_selected,                \* what the last ProtocolPreference selector returned
    allowed,                    \* what the last allows_protocol/allows_server returned
    veto,                       \* the last select_connection returned at the upgrade check
    after_veto                  \* the last select_connection_config followed such a return

vars == <<exclude_udp, pp_exclude_udp, opportunistic_encryption, encrypted_transport_state,
          op, connections, connection_configs, selected, pp_selected, allowed, veto,
          after_veto>>

env == <<opportunistic_encryption, encrypted_transport_state>>

\* Preferences::default() and ProtocolPreference::default(); the policy and the
\* transport history are whatever the resolver holds when the query starts.
Init ==
    /\ exclude_udp = FALSE
    /\ pp_exclude_udp = FALSE
    /\ opportunistic_encryption \in BOOLEAN
    /\ encrypted_transport_state \in TransportState
    /\ op = "default"
    /\ connections = <<>>
    /\ connection_configs = <<>>
    /\ selected = 0
    /\ pp_selected = 0
    /\ allowed = FALSE
    /\ veto = FALSE
    /\ after_veto = FALSE

\* exclude_udp flipping the flag instead of setting it.
ExcludeUdp_toggle ==
    /\ exclude_udp' = ~exclude_udp
    /\ op' = "exclude_udp"
    /\ connections' = <<>>
    /\ connection_configs' = <<>>
    /\ selected' = 0
    /\ pp_selected' = 0
    /\ allowed' = FALSE
    /\ veto' = FALSE
    /\ after_veto' = FALSE
    /\ UNCHANGED <<pp_exclude_udp, env>>

\* Preferences::exclude_udp
ExcludeUdp ==
    /\ exclude_udp' = TRUE
    /\ op' = "exclude_udp"
    /\ connections' = <<>>
    /\ connection_configs' = <<>>
    /\ selected' = 0
    /\ pp_selected' = 0
    /\ allowed' = FALSE
    /\ veto' = FALSE
    /\ after_veto' = FALSE
    /\ UNCHANGED <<pp_exclude_udp, env>>

\* ProtocolPreference::exclude_udp
ProtocolPreferenceExcludeUdp ==
    /\ pp_exclude_udp' = TRUE
    /\ op' = "pp_exclude_udp"
    /\ connections' = <<>>
    /\ connection_configs' = <<>>
    /\ selected' = 0
    /\ pp_selected' = 0
    /\ allowed' = FALSE
    /\ veto' = FALSE
    /\ after_veto' = FALSE
    /\ UNCHANGED <<exclude_udp, env>>

\* Where the caller stands when it starts an attempt on a server: the
\* preferences were just constructed, changed or asked about the server.
AttemptStart ==
    op \in {"default", "exclude_udp", "pp_exclude_udp", "allows_protocol", "allows_server"}

\* A call of Preferences::allows_protocol (&self)
AllowsProtocol ==
    /\ AttemptStart
    /\ \E p \in Protocol :
        /\ allowed' = allows_protocol(exclude_udp, p)
        /\ op' = "allows_protocol"
        /\ connections' = <<>>
        /\ connection_configs' = <<>>
        /\ selected' = 0
        /\ pp_selected' = 0
        /\ veto' = FALSE
        /\ after_veto' = FALSE
        /\ UNCHANGED <<exclude_udp, pp_exclude_udp, env>>

\* A call of Preferences::allows_server (&self)
AllowsServer ==
    /\ AttemptStart
    /\ \E protocols \in SUBSET Protocol :
        /\ allowed' = allows_server(exclude_udp, protocols)
        /\ op' = "allows_server"
        /\ connections' = <<>>
        /\ connection_configs' = <<>>
        /\ selected' = 0
        /\ pp_selected' = 0
        /\ veto' = FALSE
        /\ after_veto' = FALSE
        /\ UNCHANGED <<exclude_udp, pp_exclude_udp, env>>

\* A call of Preferences::select_connection (&self), the first step of an attempt.
SelectConnection ==
    /\ AttemptStart
    /\ \E conns \in SeqUpTo(ConnectionState, MaxConns) :
        LET best == best_connection(exclude_udp, opportunistic_encryption, conns)
        IN  /\ connections' = conns
            /\ selected' = select_connection(exclude_udp, encrypted_transport_state,
                                             opportunistic_encryption, conns)
            /\ veto' = (best # 0 /\ upgrade_check(encrypted_transport_state,
                                                  opportunistic_encryption, conns[best]))
            /\ op' = "select_connection"
            /\ connection_configs' = <<>>
            /\ pp_selected' = 0
            /\ allowed' = FALSE
            /\ after_veto' = FALSE
            /\ UNCHANGED <<exclude_udp, pp_exclude_udp, env>>

\* A call of Preferences::select_connection_config (&self); the caller makes it
\* when select_connection gave it nothing.
SelectConnectionConfig ==
    /\ op = "select_connection"
    /\ selected = 0
    /\ \E cfgs \in SeqUpTo(ConnectionConfig, MaxConfigs) :
        /\ connection_configs' = cfgs
        /\ selected' = select_connection_config(exclude_udp, encrypted_transport_state,
                                                opportunistic_encryption, cfgs)
        /\ after_veto' = veto
        /\ op' = "select_connection_config"
        /\ connections' = <<>>
        /\ pp_selected' = 0
        /\ allowed' = FALSE
        /\ veto' = FALSE
        /\ UNCHANGED <<exclude_udp, pp_exclude_udp, env>>

\* ProtocolPreference::select_connection on the slice the Preferences selector
\* was just given.
ProtocolPreferenceSelectConnection ==
    /\ op = "select_connection"
    /\ pp_selected' = ProtocolPreference_select_connection(pp_exclude_udp, connections)
    /\ op' = "pp_select_connection"
    /\ UNCHANGED <<exclude_udp, pp_exclude_udp, env, connections, connection_configs,
                   selected, allowed, veto, after_veto>>

\* ProtocolPreference::select_connection_config on the slice the Preferences
\* selector was just given.
ProtocolPreferenceSelectConnectionConfig ==
    /\ op = "select_connection_config"
    /\ pp_selected' = ProtocolPreference_select_connection_config(pp_exclude_udp,
                                                                  connection_configs)
    /\ op' = "pp_select_connection_config"
    /\ UNCHANGED <<exclude_udp, pp_exclude_udp, env, connections, connection_configs,
                   selected, allowed, veto, after_veto>>

Next ==
    \/ ExcludeUdp
    \/ ProtocolPreferenceExcludeUdp
    \/ AllowsProtocol
    \/ AllowsServer
    \/ SelectConnection
    \/ SelectConnectionConfig
    \/ ProtocolPreferenceSelectConnection
    \/ ProtocolPreferenceSelectConnectionConfig

Spec == Init /\ [][Next]_vars

TypeOK ==
    /\ exclude_udp \in BOOLEAN
    /\ pp_exclude_udp \in BOOLEAN
    /\ selected \in 0..(Len(connections) + Len(connection_configs))
    /\ pp_selected \in 0..(Len(connections) + Len(connection_configs))

\* ----------------------------------------------------------- claim terms
\* The terms of the properties, stated on the protocols themselves.
Encrypted(protocol) == protocol \in {"Tls", "Quic"}

Permitted(protocol) == exclude_udp => protocol # "Udp"

AnyRecentSuccess == encrypted_transport_state["Tls"] \/ encrypted_transport_state["Quic"]

RecentSuccessFor(protocol) == Encrypted(protocol) /\ encrypted_transport_state[protocol]

ConnIdx == 1..Len(connections)

CfgIdx == 1..Len(connection_configs)

CfgProtocol(i) == connection_configs[i].protocol.variant

PermittedConns == {i \in ConnIdx : Permitted(connections[i].protocol)}

PermittedCfgs == {i \in CfgIdx : Permitted(CfgProtocol(i))}

\* i has the lowest SRTT of the connections in S.
Lowest(i, S) == i \in S /\ \A j \in S : connections[i].srtt <= connections[j].srtt

\* i is the first of the connections in S that have the lowest SRTT.
FirstLowest(i, S) == Lowest(i, S) /\ \A j \in S : Lowest(j, S) => i <= j

Cfg(p) == [protocol |-> [variant |-> p,
                         server_name |-> IF Encrypted(p) THEN "ns.example" ELSE "none"]]

Conn(p, t) == [protocol |-> p, srtt |-> t]

\* ------------------------------------------------------------------- C1
\* The case of C1: the policy is enabled, the list holds one unencrypted and one
\* encrypted connection, both allowed, the unencrypted one with the lower SRTT,
\* and the history holds a recent success for the encrypted protocol.
C1_Case ==
    /\ op = "select_connection"
    /\ opportunistic_encryption
    /\ Len(connections) = 2
    /\ \E u \in ConnIdx, e \in ConnIdx :
        /\ ~Encrypted(connections[u].protocol)
        /\ Encrypted(connections[e].protocol)
        /\ Permitted(connections[u].protocol)
        /\ connections[u].srtt < connections[e].srtt
        /\ RecentSuccessFor(connections[e].protocol)

\* C1 as stated: in that case select_connection returns None.
C1_ReturnsNone == C1_Case => selected = 0

\* C1, amended: in that case select_connection returns the encrypted connection;
\* the upgrade check only discards a chosen candidate that is unencrypted.
C1_ReturnsEncrypted ==
    C1_Case => selected # 0 /\ Encrypted(connections[selected].protocol)

C1_Witness ==
    /\ C1_Case
    /\ connections = <<Conn("Tcp", 1), Conn("Tls", 2)>>
    /\ selected = 2

\* ------------------------------------------------------------------- C2
\* C2: with the policy enabled and a recent success on any encrypted protocol,
\* select_connection returns None or an encrypted connection, never UDP or TCP.
C2_NoUnencryptedReuse ==
    (op = "select_connection" /\ opportunistic_encryption /\ AnyRecentSuccess)
        => (selected = 0 \/ Encrypted(connections[selected].protocol))

C2_Witness ==
    /\ op = "select_connection"
    /\ opportunistic_encryption
    /\ AnyRecentSuccess
    /\ PermittedConns # {}
    /\ \A i \in PermittedConns : ~Encrypted(connections[i].protocol)
    /\ selected = 0

\* ------------------------------------------------------------------- C3
\* C3: neither selector returns a candidate whose protocol the preferences
\* disallow: with UDP excluded no returned connection or config is UDP, and when
\* every candidate is UDP the result is None.
C3_NeverDisallowed ==
    /\ op = "select_connection" =>
        /\ selected # 0 => ~(exclude_udp /\ connections[selected].protocol = "Udp")
        /\ (exclude_udp /\ \A i \in ConnIdx : connections[i].protocol = "Udp") => selected = 0
    /\ op = "select_connection_config" =>
        /\ selected # 0 => ~(exclude_udp /\ CfgProtocol(selected) = "Udp")
        /\ (exclude_udp /\ \A i \in CfgIdx : CfgProtocol(i) = "Udp") => selected = 0

C3_Witness ==
    /\ op = "select_connection_config"
    /\ exclude_udp
    /\ connection_configs = <<Cfg("Udp"), Cfg("Tcp")>>
    /\ selected = 2

\* ------------------------------------------------------------------- C4
\* C4: the preference state starts with UDP allowed; once the flag is set no
\* operation clears it, and an exclude_udp call on a set flag leaves it set.
C4_OneWayLatch ==
    /\ exclude_udp = FALSE
    /\ [][(exclude_udp => exclude_udp') /\ (op' = "exclude_udp" => exclude_udp')]_vars

C4_Witness ==
    /\ exclude_udp
    /\ op = "select_connection_config"
    /\ selected # 0

\* ------------------------------------------------------------------- C5
\* C5: with the policy enabled, when an allowed config is encrypted and its exact
\* protocol has a recent success, select_connection_config returns a config of
\* that kind, whatever the order and whatever else the list holds.
C5_PrefersRecentSuccess ==
    (/\ op = "select_connection_config"
     /\ opportunistic_encryption
     /\ \E i \in PermittedCfgs : RecentSuccessFor(CfgProtocol(i)))
        => (selected # 0 /\ RecentSuccessFor(CfgProtocol(selected)))

C5_Witness ==
    /\ op = "select_connection_config"
    /\ opportunistic_encryption
    /\ ~exclude_udp
    /\ ~RecentSuccessFor("Tls")
    /\ connection_configs \in {<<Cfg("Udp"), Cfg("Quic")>>, <<Cfg("Tls"), Cfg("Quic")>>}
    /\ selected = 2

\* ------------------------------------------------------------------- C6
\* The case of C6: select_connection ran on a list whose allowed candidates all
\* have one protocol.
C6_Case ==
    /\ op = "select_connection"
    /\ PermittedConns # {}
    /\ \A i \in PermittedConns, j \in PermittedConns :
        connections[i].protocol = connections[j].protocol

\* The upgrade check applies to the candidates: the policy is enabled, they are
\* unencrypted and the history holds a recent success.
C6_Upgrade ==
    /\ opportunistic_encryption
    /\ AnyRecentSuccess
    /\ \A i \in PermittedConns : ~Encrypted(connections[i].protocol)

\* C6 as stated: for every policy setting and history, the result is the first
\* of the allowed candidates with the lowest SRTT.
C6_LowestSrttAlways == C6_Case => FirstLowest(selected, PermittedConns)

\* C6, amended: the result is the first of the allowed candidates with the lowest
\* SRTT, except that it is None when the policy is enabled, the shared protocol
\* is unencrypted and the history holds a recent success.
C6_LowestSrttUnlessUpgrade ==
    C6_Case => IF C6_Upgrade THEN selected = 0 ELSE FirstLowest(selected, PermittedConns)

C6_Witness ==
    /\ C6_Case
    /\ ~C6_Upgrade
    /\ connections = <<Conn("Tcp", 2), Conn("Tcp", 1), Conn("Tcp", 1)>>
    /\ selected = 2

\* ------------------------------------------------------------------- C7
EncryptedConns == {i \in PermittedConns : Encrypted(connections[i].protocol)}

\* C7: with the policy enabled and no recent success recorded, when an allowed
\* candidate is encrypted select_connection returns an encrypted connection, the
\* one with the lowest SRTT among the encrypted ones, whatever the SRTT of the
\* unencrypted candidates.
C7_EncryptedFirst ==
    (/\ op = "select_connection"
     /\ opportunistic_encryption
     /\ ~AnyRecentSuccess
     /\ EncryptedConns # {})
        => Lowest(selected, EncryptedConns)

C7_Witness ==
    /\ op = "select_connection"
    /\ opportunistic_encryption
    /\ ~AnyRecentSuccess
    /\ ~exclude_udp
    /\ connections = <<Conn("Udp", 1), Conn("Tls", 2), Conn("Quic", 1)>>
    /\ selected = 3

\* ------------------------------------------------------------------- C8
UdpConns == {i \in ConnIdx : connections[i].protocol = "Udp"}

NonUdpConns == {i \in ConnIdx : connections[i].protocol # "Udp"}

\* C8: with the policy disabled, while UDP is allowed and a candidate is UDP the
\* result is the UDP connection with the lowest SRTT, even when another candidate
\* has a lower SRTT; with UDP excluded it is the non-UDP connection with the
\* lowest SRTT.
C8_UdpFirstThenFallback ==
    (op = "select_connection" /\ ~opportunistic_encryption) =>
        /\ (~exclude_udp /\ UdpConns # {}) => Lowest(selected, UdpConns)
        /\ (exclude_udp /\ NonUdpConns # {}) => Lowest(selected, NonUdpConns)

C8_Witness ==
    /\ op = "select_connection"
    /\ ~opportunistic_encryption
    /\ exclude_udp
    /\ connections = <<Conn("Udp", 1), Conn("Tcp", 2)>>
    /\ selected = 2

\* ------------------------------------------------------------------- C9
\* The case of C9: select_connection_config ran right after select_connection
\* returned None at the upgrade check, with the same preferences and history.
C9_Case == op = "select_connection_config" /\ after_veto

C10_Case ==
    /\ op \in {"pp_select_connection", "pp_select_connection_config"}
    /\ ~opportunistic_encryption
    /\ exclude_udp = pp_exclude_udp

\* The first allowed config is what the default ordering ranks first: no allowed
\* config is UDP, or the first allowed one is.
C10_FirstRanksFirst ==
    \A i \in PermittedCfgs : CfgProtocol(i) = "Udp" =>
        \E j \in PermittedCfgs : CfgProtocol(j) = "Udp" /\ \A k \in PermittedCfgs : j <= k

\* C10 as stated: both selectors of the two forms return the same element.
C10_SameSelection == C10_Case => pp_selected = selected

\* C10, amended: select_connection returns the same connection in both forms;
\* select_connection_config returns the same config when no allowed config is UDP
\* or the first allowed config is UDP, and otherwise ProtocolPreference returns
\* the first allowed config while Preferences returns the first UDP config.
C10_SameSelectionUnlessUdpLater ==
    C10_Case =>
        /\ op = "pp_select_connection" => pp_selected = selected
        /\ (op = "pp_select_connection_config" /\ C10_FirstRanksFirst)
            => pp_selected = selected
        /\ (op = "pp_select_connection_config" /\ ~C10_FirstRanksFirst) =>
            /\ pp_selected \in PermittedCfgs
            /\ \A k \in PermittedCfgs : pp_selected <= k
            /\ CfgProtocol(pp_selected) # "Udp"
            /\ selected \in PermittedCfgs
            /\ CfgProtocol(selected) = "Udp"
            /\ \A k \in PermittedCfgs : CfgProtocol(k) = "Udp" => selected <= k

C10_Witness ==
    /\ C10_Case
    /\ op = "pp_select_connection"
    /\ connections = <<Conn("Tcp", 1), Conn("Udp", 2), Conn("Udp", 1)>>
    /\ selected = 3
    /\ pp_selected = 3

====
